---- MODULE Spec2Model ----
(***************************************************************************)
(* Model of the open_tick crate: the conversions from the Mountain Project *)
(* and theCrag logbook records into OpenTick, the two Discipline mappings, *)
(* the (de)serialisation of MountainProjectRouteType and the resolution of *)
(* a Mountain Project route URL into a MountainProjectRouteId.             *)
(*                                                                         *)
(* Every operation of the crate is a pure function.  Each is an operator   *)
(* here, and one action per operation applies it: op names the operation   *)
(* called, input its argument, output what it returned, and pc is "call"   *)
(* before the operation has run and "return" after.                        *)
(*                                                                         *)
(* Rust values: Option<T> is a sequence of length 0 (None) or 1 (Some(x)); *)
(* Result<T, E> is <<"Ok", x>> or <<"Err", e>>; a string that is only      *)
(* copied or compared is a TLA+ string, a string that is searched or       *)
(* parsed is the sequence of its characters.                               *)
(***************************************************************************)
EXTENDS Integers, Sequences, FiniteSets

VARIABLES pc, op, input, output

vars == <<pc, op, input, output>>

None == <<>>
Some(x) == <<x>>
Ok(x) == <<"Ok", x>>
Err(e) == <<"Err", e>>

(***************************************************************************)
(* Discipline (lib.rs) and its Default: every flag false.                  *)
(***************************************************************************)
DisciplineDefault ==
    [aid |-> FALSE, bouldering |-> FALSE, deep_water_solo |-> FALSE,
     ice |-> FALSE, sport |-> FALSE, top_rope |-> FALSE, trad |-> FALSE,
     unknown |-> FALSE]

DisciplineFlags ==
    {"aid", "bouldering", "deep_water_solo", "ice", "sport", "top_rope",
     "trad", "unknown"}

\* The flags of a Discipline that are true.
PositiveFlags(d) == {f \in DisciplineFlags : d[f]}

(***************************************************************************)
(* TheCragGearStyle (thecrag.rs).  The variant deserialised from           *)
(* "Top rope" is declared as TopeRope and matched as TopRope by            *)
(* Discipline::from; it is one value here, under the name the match uses.  *)
(***************************************************************************)
TheCragGearStyle ==
    {"Aid", "Alpine", "Boulder", "FreeSolo", "Second", "Sport", "TopRope",
     "Trad", "Unknown", "None"}

\* The same match with the TopRope arm setting trad as well.
DisciplineFromTheCragGearStyle_TopRopeAlsoTrad(value) ==
    CASE value = "Aid" -> [DisciplineDefault EXCEPT !.aid = TRUE]
      [] value = "Boulder" -> [DisciplineDefault EXCEPT !.bouldering = TRUE]
      [] value = "Sport" -> [DisciplineDefault EXCEPT !.sport = TRUE]
      [] value = "TopRope" ->
            [DisciplineDefault EXCEPT !.top_rope = TRUE, !.trad = TRUE]
      [] value = "Trad" -> [DisciplineDefault EXCEPT !.trad = TRUE]
      [] value = "Unknown" -> [DisciplineDefault EXCEPT !.unknown = TRUE]
      [] OTHER -> DisciplineDefault

\* impl From<TheCragGearStyle> for Discipline
DisciplineFromTheCragGearStyle(value) ==
    CASE value = "Aid" -> [DisciplineDefault EXCEPT !.aid = TRUE]
      [] value = "Boulder" -> [DisciplineDefault EXCEPT !.bouldering = TRUE]
      [] value = "Sport" -> [DisciplineDefault EXCEPT !.sport = TRUE]
      [] value = "TopRope" -> [DisciplineDefault EXCEPT !.top_rope = TRUE]
      [] value = "Trad" -> [DisciplineDefault EXCEPT !.trad = TRUE]
      [] value = "Unknown" -> [DisciplineDefault EXCEPT !.unknown = TRUE]
      [] OTHER -> DisciplineDefault

(***************************************************************************)
(* Strings that are searched or parsed, as sequences of characters.        *)
(***************************************************************************)
Str_Boulder == <<"B", "o", "u", "l", "d", "e", "r">>
Str_Sport == <<"S", "p", "o", "r", "t">>
Str_TR == <<"T", "R">>
Str_Trad == <<"T", "r", "a", "d">>
Str_trad == <<"t", "r", "a", "d">>
Str_Unknown == <<"U", "n", "k", "n", "o", "w", "n">>
Str_CommaSpace == <<",", " ">>

\* str::starts_with
StartsWith(s, t) ==
    /\ Len(t) <= Len(s)
    /\ \A i \in 1..Len(t) : s[i] = t[i]

\* str::contains: the pattern is looked for at each position in turn.
RECURSIVE Contains(_, _)
Contains(s, t) ==
    IF Len(t) > Len(s) THEN FALSE
    ELSE IF StartsWith(s, t) THEN TRUE
    ELSE Contains(Tail(s), t)

\* [&str]::join
RECURSIVE Join(_, _)
Join(strs, sep) ==
    IF Len(strs) = 0 THEN <<>>
    ELSE IF Len(strs) = 1 THEN strs[1]
    ELSE strs[1] \o sep \o Join(Tail(strs), sep)

(***************************************************************************)
(* MountainProjectRouteType (mountain_project.rs)                          *)
(***************************************************************************)
MountainProjectRouteType ==
    [boulder : BOOLEAN, sport : BOOLEAN, top_rope : BOOLEAN, trad : BOOLEAN,
     unknown : BOOLEAN]

\* impl From<&str> for MountainProjectRouteType, with a top_rope test that
\* ignores case of the second letter ("Tr" instead of "TR").
RouteTypeFromStr_TopRopeTr(value) ==
    [boulder |-> Contains(value, Str_Boulder),
     sport |-> Contains(value, Str_Sport),
     top_rope |-> Contains(value, <<"T", "r">>),
     trad |-> Contains(value, Str_Trad),
     unknown |-> Contains(value, Str_Unknown)]

\* impl From<&str> for MountainProjectRouteType
RouteTypeFromStr(value) ==
    [boulder |-> Contains(value, Str_Boulder),
     sport |-> Contains(value, Str_Sport),
     top_rope |-> Contains(value, Str_TR),
     trad |-> Contains(value, Str_Trad),
     unknown |-> Contains(value, Str_Unknown)]

\* RouteTypeVisitor::visit_str and Deserialize for MountainProjectRouteType:
\* the field's text goes through From<&str>; no text is rejected.
RouteTypeDeserialize(value) == RouteTypeFromStr(value)

\* impl Serialize for MountainProjectRouteType: the text handed to
\* serialize_str.
RouteTypeSerialize(self) ==
    LET s0 == <<>>
        s1 == IF self.boulder THEN Append(s0, Str_Boulder) ELSE s0
        s2 == IF self.sport THEN Append(s1, Str_Sport) ELSE s1
        s3 == IF self.top_rope THEN Append(s2, Str_TR) ELSE s2
        s4 == IF self.trad THEN Append(s3, Str_trad) ELSE s3
        s5 == IF self.unknown THEN Append(s4, Str_Unknown) ELSE s4
    IN  Join(s5, Str_CommaSpace)

\* The mapping with the aid flag filled from the route type's trad.
DisciplineFromRouteType_AidFromTrad(value) ==
    [aid |-> value.trad,
     bouldering |-> value.boulder,
     deep_water_solo |-> FALSE,
     ice |-> FALSE,
     sport |-> value.sport,
     trad |-> value.trad,
     top_rope |-> value.top_rope,
     unknown |-> value.unknown]

\* impl From<MountainProjectRouteType> for Discipline
DisciplineFromRouteType(value) ==
    [aid |-> FALSE,
     bouldering |-> value.boulder,
     deep_water_solo |-> FALSE,
     ice |-> FALSE,
     sport |-> value.sport,
     trad |-> value.trad,
     top_rope |-> value.top_rope,
     unknown |-> value.unknown]

(***************************************************************************)
(* Route Type texts: up to MaxPieces fragments, one after the other.  The  *)
(* fragments are the five tokens, the separator, and text that is not a    *)
(* token but is part of one or looks like one.                             *)
(***************************************************************************)
MaxPieces == 3

RouteTypeFragments ==
    {Str_Boulder, Str_Sport, Str_TR, Str_Trad, Str_Unknown, Str_CommaSpace,
     Str_trad, <<"T">>, <<"R">>, <<"T", "r">>, <<"A", "i", "d">>,
     <<"I", "c", "e">>}

RECURSIVE Concat(_)
Concat(strs) == IF Len(strs) = 0 THEN <<>> ELSE strs[1] \o Concat(Tail(strs))

RouteTypeStrings ==
    {Concat(f) : f \in UNION {[1..n -> RouteTypeFragments] : n \in 0..MaxPieces}}


(***************************************************************************)
(* Source records.  Of the columns of each export, the records here carry  *)
(* the fields the conversions read and the fields a conversion is required *)
(* not to read (style, lead_style, crag_name, log_date).                   *)
(***************************************************************************)
SampleStrings == {"", "A"}

\* chrono::NaiveDate
NaiveDates == {"2023-05-31", "2023-06-01"}

\* chrono::DateTime<Utc>: the calendar date and the time of day, in UTC.
DateTimes == [date : NaiveDates, time : {"00:00:00", "23:59:59"}]

\* DateTime<Utc>::date_naive
DateNaive(d) == d.date

\* Option::map with the closure |d| d.date_naive()
MapDateNaive(o) == IF o = None THEN None ELSE Some(DateNaive(o[1]))

MountainProjectStyle ==
    {"Attempt", "Flash", "Follow", "Lead", "Send", "Solo", "TR"}

MountainProjectLeadStyle ==
    {"FellHung", "Flash", "Onsight", "Pinkpoint", "Redpoint"}

\* struct MountainProjectTick
MountainProjectTick ==
    [date : {None} \cup {Some(d) : d \in NaiveDates},
     route : SampleStrings,
     rating : SampleStrings,
     notes : SampleStrings,
     location : SampleStrings,
     style : {"Send", "TR"},
     lead_style : {None, Some("Onsight")},
     route_type : MountainProjectRouteType,
     your_rating : SampleStrings]

\* struct TheCragTick
TheCragTick ==
    [route_name : SampleStrings,
     route_grade : SampleStrings,
     ascent_grade : SampleStrings,
     route_gear_style : TheCragGearStyle,
     ascent_gear_style : TheCragGearStyle,
     crag_name : SampleStrings,
     crag_path : SampleStrings,
     comment : SampleStrings,
     ascent_date : {None} \cup {Some(d) : d \in DateTimes},
     log_date : {d \in DateTimes : d.time = "00:00:00"}]

\* The conversion with an empty route name turned into an absent one.
TryFromMountainProjectTick_EmptyIsNone(value) ==
    LET date == value.date
        route_name == IF value.route = "" THEN None ELSE Some(value.route)
        route_location == Some(value.location)
        route_discipline == Some(DisciplineFromRouteType(value.route_type))
        ascent_discipline == None
        route_grade == Some(value.rating)
        ascent_grade == Some(value.your_rating)
        comment == Some(value.notes)
    IN  Ok([date |-> date,
            route_name |-> route_name,
            route_location |-> route_location,
            route_discipline |-> route_discipline,
            ascent_discipline |-> ascent_discipline,
            route_grade |-> route_grade,
            ascent_grade |-> ascent_grade,
            comment |-> comment])

\* The conversion with ascent_discipline filled from the route's type.
TryFromMountainProjectTick_AscentCopiesRoute(value) ==
    LET date == value.date
        route_name == Some(value.route)
        route_location == Some(value.location)
        route_discipline == Some(DisciplineFromRouteType(value.route_type))
        ascent_discipline == Some(DisciplineFromRouteType(value.route_type))
        route_grade == Some(value.rating)
        ascent_grade == Some(value.your_rating)
        comment == Some(value.notes)
    IN  Ok([date |-> date,
            route_name |-> route_name,
            route_location |-> route_location,
            route_discipline |-> route_discipline,
            ascent_discipline |-> ascent_discipline,
            route_grade |-> route_grade,
            ascent_grade |-> ascent_grade,
            comment |-> comment])

\* impl TryFrom<MountainProjectTick> for OpenTick.  The conversion of
\* value.route_type into MountainProjectRouteType is From<T> for T.
TryFromMountainProjectTick(value) ==
    LET date == value.date
        route_name == Some(value.route)
        route_location == Some(value.location)
        route_discipline == Some(DisciplineFromRouteType(value.route_type))
        ascent_discipline == None
        route_grade == Some(value.rating)
        ascent_grade == Some(value.your_rating)
        comment == Some(value.notes)
    IN  Ok([date |-> date,
            route_name |-> route_name,
            route_location |-> route_location,
            route_discipline |-> route_discipline,
            ascent_discipline |-> ascent_discipline,
            route_grade |-> route_grade,
            ascent_grade |-> ascent_grade,
            comment |-> comment])

\* The conversion with log_date standing in for an absent ascent_date.
TryFromTheCragTick_LogDateFallback(value) ==
    LET date ==
            IF value.ascent_date = None THEN Some(DateNaive(value.log_date))
            ELSE MapDateNaive(value.ascent_date)
        route_name == Some(value.route_name)
        route_location == Some(value.crag_path)
        route_discipline ==
            Some(DisciplineFromTheCragGearStyle(value.route_gear_style))
        ascent_discipline ==
            Some(DisciplineFromTheCragGearStyle(value.ascent_gear_style))
        route_grade == Some(value.route_grade)
        ascent_grade == Some(value.ascent_grade)
        comment == Some(value.comment)
    IN  Ok([date |-> date,
            route_name |-> route_name,
            route_location |-> route_location,
            route_discipline |-> route_discipline,
            ascent_discipline |-> ascent_discipline,
            route_grade |-> route_grade,
            ascent_grade |-> ascent_grade,
            comment |-> comment])

\* The conversion with both disciplines taken from route_gear_style.
TryFromTheCragTick_AscentFromRouteGear(value) ==
    LET date == MapDateNaive(value.ascent_date)
        route_name == Some(value.route_name)
        route_location == Some(value.crag_path)
        route_discipline ==
            Some(DisciplineFromTheCragGearStyle(value.route_gear_style))
        ascent_discipline ==
            Some(DisciplineFromTheCragGearStyle(value.route_gear_style))
        route_grade == Some(value.route_grade)
        ascent_grade == Some(value.ascent_grade)
        comment == Some(value.comment)
    IN  Ok([date |-> date,
            route_name |-> route_name,
            route_location |-> route_location,
            route_discipline |-> route_discipline,
            ascent_discipline |-> ascent_discipline,
            route_grade |-> route_grade,
            ascent_grade |-> ascent_grade,
            comment |-> comment])

\* The conversion with route_location taken from crag_name.
TryFromTheCragTick_LocationFromCragName(value) ==
    LET date == MapDateNaive(value.ascent_date)
        route_name == Some(value.route_name)
        route_location == Some(value.crag_name)
        route_discipline ==
            Some(DisciplineFromTheCragGearStyle(value.route_gear_style))
        ascent_discipline ==
            Some(DisciplineFromTheCragGearStyle(value.ascent_gear_style))
        route_grade == Some(value.route_grade)
        ascent_grade == Some(value.ascent_grade)
        comment == Some(value.comment)
    IN  Ok([date |-> date,
            route_name |-> route_name,
            route_location |-> route_location,
            route_discipline |-> route_discipline,
            ascent_discipline |-> ascent_discipline,
            route_grade |-> route_grade,
            ascent_grade |-> ascent_grade,
            comment |-> comment])

\* impl TryFrom<TheCragTick> for OpenTick
TryFromTheCragTick(value) ==
    LET date == MapDateNaive(value.ascent_date)
        route_name == Some(value.route_name)
        route_location == Some(value.crag_path)
        route_discipline ==
            Some(DisciplineFromTheCragGearStyle(value.route_gear_style))
        ascent_discipline ==
            Some(DisciplineFromTheCragGearStyle(value.ascent_gear_style))
        route_grade == Some(value.route_grade)
        ascent_grade == Some(value.ascent_grade)
        comment == Some(value.comment)
    IN  Ok([date |-> date,
            route_name |-> route_name,
            route_location |-> route_location,
            route_discipline |-> route_discipline,
            ascent_discipline |-> ascent_discipline,
            route_grade |-> route_grade,
            ascent_grade |-> ascent_grade,
            comment |-> comment])

(***************************************************************************)
(* MountainProjectRouteId (mountain_project.rs)                            *)
(***************************************************************************)
DigitChars == <<"0", "1", "2", "3", "4", "5", "6", "7", "8", "9">>

\* char::to_digit(10)
IsDigit(c) == \E i \in 1..Len(DigitChars) : DigitChars[i] = c
ToDigit(c) == (CHOOSE i \in 1..Len(DigitChars) : DigitChars[i] = c) - 1

\* usize::MAX in decimal, usize being 64 bits wide.
UsizeMaxDigits == <<"1", "8", "4", "4", "6", "7", "4", "4", "0", "7", "3", "7", "0", "9", "5", "5", "1", "6", "1", "5">>

\* A decimal numeral without its leading zeros.
RECURSIVE StripLeadingZeros(_)
StripLeadingZeros(d) ==
    IF Len(d) > 1 /\ d[1] = "0" THEN StripLeadingZeros(Tail(d)) ELSE d

\* d > e for decimal numerals of the same length.
RECURSIVE NumeralGreater(_, _)
NumeralGreater(d, e) ==
    IF Len(d) = 0 THEN FALSE
    ELSE IF d[1] # e[1] THEN ToDigit(d[1]) > ToDigit(e[1])
    ELSE NumeralGreater(Tail(d), Tail(e))

\* The number a numeral without leading zeros denotes is above usize::MAX.
ExceedsUsizeMax(d) ==
    \/ Len(d) > Len(UsizeMaxDigits)
    \/ Len(d) = Len(UsizeMaxDigits) /\ NumeralGreater(d, UsizeMaxDigits)

\* The number a numeral denotes.
RECURSIVE DecimalValue(_)
DecimalValue(d) ==
    IF Len(d) = 0 THEN 0
    ELSE 10 * DecimalValue(SubSeq(d, 1, Len(d) - 1)) + ToDigit(d[Len(d)])

\* The digit loop of usize::from_str: each character must be a digit, and
\* result * 10 + digit must not overflow.  The running result is kept as
\* the numeral read so far.
RECURSIVE ParseDigits(_, _)
ParseDigits(rest, result) ==
    IF Len(rest) = 0 THEN Ok(DecimalValue(result))
    ELSE IF ~IsDigit(rest[1]) THEN Err("InvalidDigit")
    ELSE LET next == StripLeadingZeros(Append(result, rest[1]))
         IN  IF ExceedsUsizeMax(next) THEN Err("PosOverflow")
             ELSE ParseDigits(Tail(rest), next)

\* str::parse::<usize>
ParseUsize(src) ==
    IF Len(src) = 0 THEN Err("Empty")
    ELSE IF src = <<"+">> \/ src = <<"-">> THEN Err("InvalidDigit")
    ELSE IF src[1] = "+" THEN ParseDigits(Tail(src), <<>>)
    ELSE ParseDigits(src, <<>>)

Str_route == <<"r", "o", "u", "t", "e">>
Str_v == <<"v">>

\* The parse of the second segment with the id 0 turned away as a bad path.
RouteIdFromSecond_ZeroIsBadPath(second) ==
    IF second = None THEN Err("BadPath")
    ELSE LET parsed == ParseUsize(second[1])
         IN  IF parsed[1] = "Err" \/ parsed[2] = 0 THEN Err("BadPath")
             ELSE Ok(parsed[2])

\* The second half of MountainProjectRouteId::try_from: the segment after
\* "route" is parsed; a missing segment and a parse error are both BadPath.
RouteIdFromSecond(second) ==
    IF second = None THEN Err("BadPath")
    ELSE LET parsed == ParseUsize(second[1])
         IN  IF parsed[1] = "Err" THEN Err("BadPath") ELSE Ok(parsed[2])

\* The resolution with the path looked at before the domain.
RouteIdTryFromUrl_PathBeforeDomain(value) ==
    IF value.path_segments = None THEN Err("WrongDomain")
    ELSE LET path == value.path_segments[1]
             first == IF Len(path) >= 1 THEN Some(path[1]) ELSE None
             second == IF Len(path) >= 2 THEN Some(path[2]) ELSE None
         IN  IF first # Some(Str_route) THEN Err("BadPath")
             ELSE IF value.domain # Some("www.mountainproject.com")
                  THEN Err("WrongDomain")
             ELSE RouteIdFromSecond(second)

\* impl TryFrom<Url> for MountainProjectRouteId.  value.domain is what
\* Url::domain returns, value.path_segments the segments Url::path_segments
\* yields (None where it returns None).
RouteIdTryFromUrl(value) ==
    IF value.domain # Some("www.mountainproject.com") THEN Err("WrongDomain")
    ELSE IF value.path_segments = None THEN Err("WrongDomain")
    ELSE LET path == value.path_segments[1]
             first == IF Len(path) >= 1 THEN Some(path[1]) ELSE None
             second == IF Len(path) >= 2 THEN Some(path[2]) ELSE None
         IN  IF first = Some(Str_route) THEN RouteIdFromSecond(second)
             ELSE IF first = Some(Str_v) THEN Err("BadPath")
             ELSE IF first # None THEN Err("BadPath")
             ELSE Err("BadPath")

(***************************************************************************)
(* URLs.  A URL with a host has at least one path segment (the empty one   *)
(* when the path is "/"); Url::domain is None for a host that is an IP     *)
(* address; a URL that cannot be a base has neither host nor segments.     *)
(***************************************************************************)
MaxSegments == 3

UrlDomains ==
    {Some("www.mountainproject.com"), Some("www.projectmountain.com"),
     Some("mountainproject.com"), None}

UrlSegments ==
    {Str_route, Str_v, <<"a", "r", "e", "a">>, <<>>, <<"1", "2", "3", "2", "1">>, <<"0">>, <<"0", "0", "7">>, <<"+", "5">>, <<"-", "1">>, <<"1", "2", "a">>, <<"r", "o", "u", "t", "e", "-", "n", "a", "m", "e">>, <<"1", "8", "4", "4", "6", "7", "4", "4", "0", "7", "3", "7", "0", "9", "5", "5", "1", "6", "1", "6">>}

Urls ==
    [domain : UrlDomains,
     path_segments :
        {Some(p) : p \in UNION {[1..n -> UrlSegments] : n \in 1..MaxSegments}}]
    \cup {[domain |-> None, path_segments |-> None]}

(***************************************************************************)
(* A run is one call: Init draws the operation and its argument, the       *)
(* operation's action computes what it returns.                            *)
(***************************************************************************)
Op_DisciplineFromTheCragGearStyle == "Discipline::from(TheCragGearStyle)"
Op_DisciplineFromRouteTypeStr ==
    "Discipline::from(MountainProjectRouteType::from(&str))"
Op_RouteTypeRoundTrip ==
    "MountainProjectRouteType::serialize(deserialize(&str))"

Op_TryFromMountainProjectTick == "OpenTick::try_from(MountainProjectTick)"
Op_TryFromTheCragTick == "OpenTick::try_from(TheCragTick)"
Op_RouteIdTryFromUrl == "MountainProjectRouteId::try_from(Url)"

Init ==
    /\ pc = "call"
    /\ output = None
    /\ \/ op = Op_DisciplineFromTheCragGearStyle /\ input \in TheCragGearStyle
       \/ op = Op_DisciplineFromRouteTypeStr /\ input \in RouteTypeStrings
       \/ op = Op_RouteTypeRoundTrip /\ input \in RouteTypeStrings
       \/ op = Op_TryFromMountainProjectTick /\ input \in MountainProjectTick
       \/ op = Op_TryFromTheCragTick /\ input \in TheCragTick
       \/ op = Op_RouteIdTryFromUrl /\ input \in Urls

\* Discipline::from(value: TheCragGearStyle)
CallDisciplineFromTheCragGearStyle ==
    /\ pc = "call"
    /\ op = Op_DisciplineFromTheCragGearStyle
    /\ output' = DisciplineFromTheCragGearStyle(input)
    /\ pc' = "return"
    /\ UNCHANGED <<op, input>>

\* Discipline::from(MountainProjectRouteType::from(value: &str))
CallDisciplineFromRouteTypeStr ==
    /\ pc = "call"
    /\ op = Op_DisciplineFromRouteTypeStr
    /\ output' = DisciplineFromRouteType(RouteTypeFromStr(input))
    /\ pc' = "return"
    /\ UNCHANGED <<op, input>>

\* A Route Type field is deserialised and the value serialised again.
CallRouteTypeRoundTrip ==
    /\ pc = "call"
    /\ op = Op_RouteTypeRoundTrip
    /\ output' = RouteTypeSerialize(RouteTypeDeserialize(input))
    /\ pc' = "return"
    /\ UNCHANGED <<op, input>>

\* OpenTick::try_from(value: MountainProjectTick)
CallTryFromMountainProjectTick ==
    /\ pc = "call"
    /\ op = Op_TryFromMountainProjectTick
    /\ output' = TryFromMountainProjectTick(input)
    /\ pc' = "return"
    /\ UNCHANGED <<op, input>>

\* OpenTick::try_from(value: TheCragTick)
CallTryFromTheCragTick ==
    /\ pc = "call"
    /\ op = Op_TryFromTheCragTick
    /\ output' = TryFromTheCragTick(input)
    /\ pc' = "return"
    /\ UNCHANGED <<op, input>>

\* MountainProjectRouteId::try_from(value: Url)
CallRouteIdTryFromUrl ==
    /\ pc = "call"
    /\ op = Op_RouteIdTryFromUrl
    /\ output' = RouteIdTryFromUrl(input)
    /\ pc' = "return"
    /\ UNCHANGED <<op, input>>

Next ==
    \/ CallDisciplineFromTheCragGearStyle
    \/ CallDisciplineFromRouteTypeStr
    \/ CallRouteTypeRoundTrip
    \/ CallTryFromMountainProjectTick
    \/ CallTryFromTheCragTick
    \/ CallRouteIdTryFromUrl

Spec == Init /\ [][Next]_vars

(***************************************************************************)
(* Properties                                                              *)
(***************************************************************************)
Returned(o) == pc = "return" /\ op = o

\* The Discipline with one flag true.
Only(flag) == [f \in DisciplineFlags |-> f = flag]

\* t occurs in s: some stretch of s, Len(t) long, equals t.
HasSubstring(s, t) ==
    \E i \in 0..(Len(s) - Len(t)) : \A j \in 1..Len(t) : s[i + j] = t[j]

NonCoreGearStyles == {"Alpine", "FreeSolo", "Second", "None"}

\* C1: Discipline::from maps each gear style outside the core taxonomy
\* (Alpine, FreeSolo, Second, None) to the Discipline whose only true flag
\* is unknown, never to the all-false Discipline.
C1_NonCoreGearStyleIsUnknown ==
    (Returned(Op_DisciplineFromTheCragGearStyle) /\ input \in NonCoreGearStyles)
        => /\ output = Only("unknown")
           /\ output # DisciplineDefault

CoreGearStyleFlag ==
    [Aid |-> "aid", Boulder |-> "bouldering", Sport |-> "sport",
     TopRope |-> "top_rope", Trad |-> "trad", Unknown |-> "unknown"]

\* C2: Discipline::from maps each core gear style (Aid, Boulder, Sport,
\* TopRope, Trad, Unknown) to the Discipline whose only true flag is the
\* matching one, and for every gear style at most one flag is true.
C2_CoreGearStyleSetsMatchingFlag ==
    Returned(Op_DisciplineFromTheCragGearStyle)
        => /\ input \in DOMAIN CoreGearStyleFlag
                => output = Only(CoreGearStyleFlag[input])
           /\ Cardinality(PositiveFlags(output)) <= 1

C2_Witness ==
    /\ Returned(Op_DisciplineFromTheCragGearStyle)
    /\ input = "TopRope"
    /\ PositiveFlags(output) = {"top_rope"}

Str_TradCommaTR == <<"T", "r", "a", "d", ",", " ", "T", "R">>

\* C3: for every Route Type text, bouldering, sport, top_rope, trad and
\* unknown are true exactly when the text contains Boulder, Sport, TR, Trad
\* and Unknown respectively, and no other flag is true: "Trad, TR" gives
\* trad and top_rope only, "Unknown" gives unknown only, a text without any
\* token gives the all-false Discipline.
C3_RouteTypeFlagsAreSubstringTests ==
    Returned(Op_DisciplineFromRouteTypeStr)
        => /\ output.bouldering <=> HasSubstring(input, Str_Boulder)
           /\ output.sport <=> HasSubstring(input, Str_Sport)
           /\ output.top_rope <=> HasSubstring(input, Str_TR)
           /\ output.trad <=> HasSubstring(input, Str_Trad)
           /\ output.unknown <=> HasSubstring(input, Str_Unknown)
           /\ ~output.aid /\ ~output.deep_water_solo /\ ~output.ice
           /\ input = Str_TradCommaTR
                => PositiveFlags(output) = {"trad", "top_rope"}
           /\ input = Str_Unknown => output = Only("unknown")
           /\ (\A t \in {Str_Boulder, Str_Sport, Str_TR, Str_Trad, Str_Unknown} :
                    ~HasSubstring(input, t))
                => output = DisciplineDefault /\ output # Only("unknown")

C3_Witness ==
    /\ Returned(Op_DisciplineFromRouteTypeStr)
    /\ input = Str_TradCommaTR
    /\ output.trad /\ output.top_rope /\ ~output.sport

\* C4: the conversion of a MountainProjectTick never fails; route_name,
\* route_location, route_grade, ascent_grade and comment of the result are
\* Some of the source's route, location, rating, your_rating and notes,
\* also when the source string is empty, and date is the source date.
C4_MountainProjectFieldsVerbatim ==
    Returned(Op_TryFromMountainProjectTick)
        => /\ output[1] = "Ok"
           /\ output[2].route_name = Some(input.route)
           /\ output[2].route_location = Some(input.location)
           /\ output[2].route_grade = Some(input.rating)
           /\ output[2].ascent_grade = Some(input.your_rating)
           /\ output[2].comment = Some(input.notes)
           /\ output[2].date = input.date

C4_Witness ==
    /\ Returned(Op_TryFromMountainProjectTick)
    /\ input.route = "" /\ input.location = "A" /\ input.date # None
    /\ output[2].route_name = Some("") /\ output[2].route_location = Some("A")

\* C5: the date of a converted TheCragTick is absent when ascent_date is
\* absent and is the calendar date of ascent_date otherwise; records that
\* differ only in log_date convert to the same date.
C5_DateFromAscentDateOnly ==
    Returned(Op_TryFromTheCragTick)
        => /\ input.ascent_date = None => output[2].date = None
           /\ input.ascent_date # None
                => output[2].date = Some(input.ascent_date[1].date)
           /\ \A d \in DateTimes :
                TryFromTheCragTick([input EXCEPT !.log_date = d])[2].date
                    = output[2].date

C5_Witness ==
    /\ Returned(Op_TryFromTheCragTick)
    /\ input.ascent_date = None
    /\ input.log_date.date = "2023-06-01"
    /\ output[2].date = None

\* C6: ascent_discipline of a converted MountainProjectTick is absent for
\* every record, so it is never a copy of route_discipline, and
\* route_discipline is present and is the mapping of the record's Route
\* Type.
C6_MountainProjectAscentDisciplineAbsent ==
    Returned(Op_TryFromMountainProjectTick)
        => /\ output[2].ascent_discipline = None
           /\ output[2].ascent_discipline # output[2].route_discipline
           /\ Len(output[2].route_discipline) = 1
           /\ LET d == output[2].route_discipline[1]
                  t == input.route_type
              IN  /\ d.bouldering = t.boulder /\ d.sport = t.sport
                  /\ d.top_rope = t.top_rope /\ d.trad = t.trad
                  /\ d.unknown = t.unknown
                  /\ ~d.aid /\ ~d.deep_water_solo /\ ~d.ice

C6_Witness ==
    /\ Returned(Op_TryFromMountainProjectTick)
    /\ input.route_type.trad /\ input.route_type.top_rope
    /\ input.style = "TR" /\ input.lead_style # None
    /\ output[2].ascent_discipline = None
    /\ output[2].route_discipline[1].trad

\* C7: route_discipline of a converted TheCragTick is the mapping of
\* route_gear_style and ascent_discipline the mapping of ascent_gear_style,
\* both present; changing one gear style leaves the other discipline as it
\* is; route gear style Trad with ascent gear style TopRope gives
\* route_discipline with only trad and ascent_discipline with only top_rope.
C7_DisciplinesFromTheirOwnGearStyle ==
    Returned(Op_TryFromTheCragTick)
        => /\ output[2].route_discipline
                = Some(DisciplineFromTheCragGearStyle(input.route_gear_style))
           /\ output[2].ascent_discipline
                = Some(DisciplineFromTheCragGearStyle(input.ascent_gear_style))
           /\ \A g \in TheCragGearStyle :
                /\ TryFromTheCragTick(
                        [input EXCEPT !.ascent_gear_style = g])[2].route_discipline
                     = output[2].route_discipline
                /\ TryFromTheCragTick(
                        [input EXCEPT !.route_gear_style = g])[2].ascent_discipline
                     = output[2].ascent_discipline
           /\ (input.route_gear_style = "Trad"
                    /\ input.ascent_gear_style = "TopRope")
                => /\ output[2].route_discipline = Some(Only("trad"))
                   /\ output[2].ascent_discipline = Some(Only("top_rope"))

C7_Witness ==
    /\ Returned(Op_TryFromTheCragTick)
    /\ input.route_gear_style = "Trad"
    /\ input.ascent_gear_style = "TopRope"
    /\ output[2].route_discipline # output[2].ascent_discipline

\* The text is an optional "+" and then one or more digits.
IsNumeral(s) ==
    LET body == IF Len(s) > 0 /\ s[1] = "+" THEN Tail(s) ELSE s
    IN  Len(body) > 0 /\ \A i \in 1..Len(body) : IsDigit(body[i])

NumeralBody(s) == StripLeadingZeros(IF s[1] = "+" THEN Tail(s) ELSE s)

RECURSIVE Pow10(_)
Pow10(n) == IF n = 0 THEN 1 ELSE 10 * Pow10(n - 1)

\* The number a digit string denotes: the sum of digit * 10^place.
RECURSIVE PlaceValueSum(_)
PlaceValueSum(d) ==
    IF Len(d) = 0 THEN 0
    ELSE ToDigit(d[1]) * Pow10(Len(d) - 1) + PlaceValueSum(Tail(d))

\* The text parses as a non-negative integer of the id's type.
ParsesAsId(s) == IsNumeral(s) /\ ~ExceedsUsizeMax(NumeralBody(s))

Str_12321 == <<"1", "2", "3", "2", "1">>
Str_route_name == <<"r", "o", "u", "t", "e", "-", "n", "a", "m", "e">>

RouteTypeTokens == <<Str_Boulder, Str_Sport, Str_TR, Str_Trad, Str_Unknown>>

\* The tokens at the places in S, in order, joined with ", ".
TokenList(S) ==
    Join(SelectSeq([i \in 1..Len(RouteTypeTokens) |->
                        IF i \in S THEN RouteTypeTokens[i] ELSE <<>>],
                   LAMBDA t : t # <<>>),
         Str_CommaSpace)

TokenLists == {TokenList(S) : S \in SUBSET (1..Len(RouteTypeTokens))}

\* C9: a Route Type text that is a comma-joined list of known tokens in the
\* order Boulder, Sport, TR, Trad, Unknown is reproduced by deserialising
\* and serialising it.
C9_RouteTypeRoundTrip ==
    (Returned(Op_RouteTypeRoundTrip) /\ input \in TokenLists)
        => output = input

\* C10: the conversion of a TheCragTick never fails; route_location of the
\* result is Some(crag_path) whatever crag_name is, and route_name,
\* route_grade, ascent_grade and comment are Some of the source fields of
\* the same name.
C10_TheCragLocationIsCragPath ==
    Returned(Op_TryFromTheCragTick)
        => /\ output[1] = "Ok"
           /\ output[2].route_location = Some(input.crag_path)
           /\ \A n \in SampleStrings :
                TryFromTheCragTick([input EXCEPT !.crag_name = n])[2].route_location
                    = output[2].route_location
           /\ output[2].route_name = Some(input.route_name)
           /\ output[2].route_grade = Some(input.route_grade)
           /\ output[2].ascent_grade = Some(input.ascent_grade)
           /\ output[2].comment = Some(input.comment)

C10_Witness ==
    /\ Returned(Op_TryFromTheCragTick)
    /\ input.crag_path = "A" /\ input.crag_name = ""
    /\ output[2].route_location = Some("A")

Str_0 == <<"0">>

\* C11 as stated: every id returned by MountainProjectRouteId::try_from is
\* a positive integer; no URL resolves to Ok with id 0.
C11_RouteIdIsPositive ==
    (Returned(Op_RouteIdTryFromUrl) /\ output[1] = "Ok") => output[2] > 0

\* C11 as amended: every id returned by MountainProjectRouteId::try_from
\* is a non-negative integer, and a URL of www.mountainproject.com whose
\* path starts with "route" and then "0" resolves to Ok with id 0.
C11_RouteIdIsNonNegative ==
    Returned(Op_RouteIdTryFromUrl)
        => /\ output[1] = "Ok" => output[2] \in Nat
           /\ (/\ input.domain = Some("www.mountainproject.com")
               /\ input.path_segments # None
               /\ Len(input.path_segments[1]) >= 2
               /\ input.path_segments[1][1] = Str_route
               /\ input.path_segments[1][2] = Str_0)
                => output = Ok(0)

C11_Witness ==
    /\ Returned(Op_RouteIdTryFromUrl)
    /\ input.domain = Some("www.mountainproject.com")
    /\ input.path_segments = Some(<<Str_route, Str_0, Str_route_name>>)
    /\ output = Ok(0)

FreeTextFlags == {"bouldering", "sport", "top_rope", "trad", "unknown"}

Str_Aid == <<"A", "i", "d">>
Str_Ice == <<"I", "c", "e">>

\* C12: a Discipline made from a Route Type text, and route_discipline of
\* every converted MountainProjectTick, has no true flag other than
\* bouldering, sport, top_rope, trad and unknown: aid, deep_water_solo and
\* ice are false, also for a text that contains Aid or Ice.
C12_FreeTextNeverSetsAidDwsIce ==
    /\ Returned(Op_DisciplineFromRouteTypeStr)
        => PositiveFlags(output) \subseteq FreeTextFlags
    /\ Returned(Op_TryFromMountainProjectTick)
        => PositiveFlags(output[2].route_discipline[1]) \subseteq FreeTextFlags

C12_Witness ==
    /\ Returned(Op_DisciplineFromRouteTypeStr)
    /\ HasSubstring(input, Str_Aid)
    /\ HasSubstring(input, Str_Ice)
    /\ HasSubstring(input, Str_Trad)
    /\ PositiveFlags(output) = {"trad"}

====
